---- MODULE Spec2Model ----
(***************************************************************************)
(* RemoteRequest (src/src/remoteRequest.ts): an axios client whose         *)
(* response-error interceptor, handleTokenRefresh, renews an expired       *)
(* credential once and queues the requests that fail meanwhile.            *)
(*                                                                         *)
(* A task is one invocation of the axios instance: the caller's call, a    *)
(* renewal call made by a handler (tokenReissueWhenUse...), or the replay  *)
(* of a request descriptor (this._axiosInstance(originalRequest)).  Every  *)
(* failed task runs handleTokenRefresh.  JavaScript runs one macrotask at  *)
(* a time and drains the promise continuations (microtasks) before the     *)
(* next one: a settled promise that a handler awaits is delivered before   *)
(* any new response, callback completion or request is processed.          *)
(***************************************************************************)
EXTENDS Integers, Sequences, FiniteSets, TLC

\* ---------------------------------------------------------------- bounds
NumRequests == 3          \* requests the caller issues through the facade
MaxRenewals == 2          \* renewal calls (POST tokenReissueUrl) overall
MaxFailures == 3          \* failed tasks overall

\* ------------------------------------------------------------ identities
NumCfg == NumRequests + MaxRenewals
UserIds == 1..NumRequests
RenewalIds == (NumRequests + 1)..NumCfg
CfgIds == 1..NumCfg
Tasks == 1..(2 * NumCfg)
ReplayIds == (NumCfg + 1)..(2 * NumCfg)

\* the request descriptor (error.config / originalRequest) a task sends
Cfg(t) == IF t > NumCfg THEN t - NumCfg ELSE t
\* the task that replays descriptor x
ReplayOf(x) == x + NumCfg

\* ------------------------------------------------------------------ URLs
\* a URL is the sequence of its parts; <<>> is an absent URL
TokenReissueUrl == <<"https", "auth", "refresh">>
DataUrl == <<"https", "api", "data">>
UserUrls == {DataUrl}

\* String.prototype.includes
Includes(s, sub) ==
  \E i \in 0..(Len(s) - Len(sub)) : SubSeq(s, i + 1, i + Len(sub)) = sub

\* ---------------------------------------------------------------- values
None == [k |-> "none", id |-> 0, exp |-> FALSE, cfg |-> FALSE]
Resp(t) == [k |-> "resp", id |-> t, exp |-> FALSE, cfg |-> TRUE]
\* the failure of task t: exp is what checkTokenExpiredError answers for it,
\* cfg whether it carries error.config
Err(t, exp, hasCfg) == [k |-> "err", id |-> t, exp |-> exp, cfg |-> hasCfg]
UrlRequestIsEmptyError == [k |-> "urlRequestIsEmpty", id |-> 0, exp |-> FALSE, cfg |-> FALSE]
DefaultMissingError == [k |-> "missingRequest", id |-> 0, exp |-> FALSE, cfg |-> FALSE]
FetchError(h) == [k |-> "fetchError", id |-> h, exp |-> FALSE, cfg |-> FALSE]
SuccessCallbackError(h) == [k |-> "successCallbackError", id |-> h, exp |-> FALSE, cfg |-> FALSE]
FailureCallbackError(h) == [k |-> "failureCallbackError", id |-> h, exp |-> FALSE, cfg |-> FALSE]

\* credentials: what fetchAuthTokenMethod returns (null or a token pair)
NullCreds == [isNull |-> TRUE, accessToken |-> "", refreshToken |-> ""]
StoredCreds == [isNull |-> FALSE, accessToken |-> "access-old", refreshToken |-> "refresh-old"]
FetchResults == {NullCreds, StoredCreds}
\* response.data of a successful renewal call
IssuedCreds == [isNull |-> FALSE, accessToken |-> "access-new", refreshToken |-> "refresh-new"]
NoArgs == <<>>
\* fetchAuthTokenMethod returns credentials whose accessToken is ""
EmptyCreds == [isNull |-> FALSE, accessToken |-> "", refreshToken |-> "refresh-old"]
\* no Authorization header on the descriptor
NoHeader == "none"
\* `Bearer ${token.accessToken}`
Bearer(tok) == <<"Bearer", tok>>
\* encryptionConfig is not supplied
NoEncryption == [present |-> FALSE, encryptUrlStr |-> <<>>]
\* an encryptionConfig with marker m (both transforms supplied)
Encryption(m) == [present |-> TRUE, encryptUrlStr |-> m]
\* the error the injected requestInterceptor raises
TransformError == [k |-> "transformError", id |-> 0, exp |-> FALSE, cfg |-> FALSE]
\* config.data as the caller passed it
OriginalData == <<"body">>
\* encryptionConfig.requestInterceptor(config): the config it returns holds
\* the transformed body
RequestTransform(d) == <<"enc">> \o d
\* config.data the request interceptor returns: transformed when the gate holds
DataAfterGate(tr, d) == IF tr THEN RequestTransform(d) ELSE d
\* main specification: the constructor arguments are not followed
NoCtorArgs == [given |-> FALSE]

VARIABLES
  isUseCookie,          \* tokenTransportType = WEB_COOKIE
  hasFailureCallback,   \* reissueTokenFailureCallback is supplied
  hasMapper,            \* tokenConfig.errorMappers.urlRequestIsEmpty is supplied
  isRefreshingToken,
  failedQueue,          \* sequence of the tasks waiting (their resolve/reject/originalRequest)
  url,                  \* url of each caller's request descriptor
  retry,                \* originalRequest._retry of each descriptor
  pc,                   \* where each task (and its handler) stands
  result,               \* the value or error a task's promise settled with
  owner,                \* the handler (task) that awaits a task; 0: the caller
  undelivered,          \* settled tasks whose awaiting handler has not resumed yet
  drainSet,             \* per handler: the waiters its processQueue(null) still replays
  caught,               \* per handler: refreshError of its catch block
  failure,              \* per task: the error handleTokenRefresh received (history)
  consulted,            \* tasks for whose failure checkTokenExpiredError was called (history)
  enq,                  \* tasks ever pushed to failedQueue (history)
  windowCalls,          \* renewal calls since isRefreshingToken last went false -> true
  fetched,              \* per handler: `result`, what its fetchAuthTokenMethod call returned,
                        \* while the renewal call is pending
  cbArgs,               \* per handler: the arguments of its pending reissueTokenSuccessCallback call
  waitsOn               \* per waiter: the handlers whose renewal was pending when it was
                        \* pushed to failedQueue (history)

\* the request interceptor, followed for one request descriptor
VARIABLES
  encryptionConfig,     \* the constructor's encryptionConfig, or NoEncryption
  transformRaises,      \* encryptionConfig.requestInterceptor throws (or rejects)
  method,               \* config.method
  reqUrl,               \* config.url
  authHeader,           \* config.headers.Authorization of the descriptor
  gpc,                  \* where the descriptor stands
  handed,               \* what was handed to Transport, in order
  transformCalls,       \* calls of encryptionConfig.requestInterceptor
  fetchCalls,           \* calls of fetchAuthTokenMethod by the request interceptor
  lastFetch,            \* what fetchAuthTokenMethod returned for the last send
  callerError,          \* the error the caller's call was rejected with
  responseTransformCalls, \* calls of encryptionConfig.responseInterceptor
  received,             \* what the response interceptor returned to the caller
  data                  \* config.data of the descriptor

\* the constructor, followed for one `new RemoteRequest(...)`
VARIABLES
  ctorArgs,             \* the arguments of the constructor
  ctorResult            \* "pending", "constructed", or the error thrown

gateVars == <<encryptionConfig, transformRaises, method, reqUrl, authHeader, gpc,
              handed, transformCalls, fetchCalls, lastFetch, callerError,
              responseTransformCalls, received, data>>
ctorVars == <<ctorArgs, ctorResult>>

vars == <<isUseCookie, hasFailureCallback, hasMapper, isRefreshingToken, failedQueue,
          url, retry, pc, result, owner, undelivered, drainSet, caught, failure,
          consulted, enq, windowCalls, fetched, cbArgs, waitsOn, gateVars, ctorVars>>

Range(q) == {q[i] : i \in 1..Len(q)}
UrlOf(x) == IF x \in UserIds THEN url[x] ELSE TokenReissueUrl
Settled(t) == pc[t] \in {"resolved", "rejected"}
\* a promise continuation is ready to run: nothing else runs before it
MicrotaskPending == undelivered # {}

\* no request descriptor is followed through the request interceptor
GateIdle ==
  /\ encryptionConfig = NoEncryption
  /\ transformRaises = FALSE
  /\ method = "get"
  /\ reqUrl = <<>>
  /\ authHeader = NoHeader
  /\ gpc = "idle"
  /\ handed = <<>>
  /\ transformCalls = 0
  /\ fetchCalls = 0
  /\ lastFetch = NullCreds
  /\ callerError = None
  /\ responseTransformCalls = 0
  /\ received = None
  /\ data = OriginalData

\* the instance exists: its constructor has returned
CtorIdle ==
  /\ ctorArgs = NoCtorArgs
  /\ ctorResult = "constructed"

\* the fields of a fresh instance: no renewal in progress, nothing queued
HandlerIdle ==
  /\ isRefreshingToken = FALSE
  /\ failedQueue = <<>>
  /\ url = [r \in UserIds |-> <<>>]
  /\ retry = [x \in CfgIds |-> FALSE]
  /\ pc = [t \in Tasks |-> "idle"]
  /\ result = [t \in Tasks |-> None]
  /\ owner = [t \in Tasks |-> 0]
  /\ undelivered = {}
  /\ drainSet = [t \in Tasks |-> {}]
  /\ caught = [t \in Tasks |-> None]
  /\ failure = [t \in Tasks |-> None]
  /\ consulted = {}
  /\ enq = {}
  /\ windowCalls = 0
  /\ fetched = [t \in Tasks |-> NullCreds]
  /\ cbArgs = [t \in Tasks |-> NoArgs]
  /\ waitsOn = [t \in Tasks |-> {}]

Init ==
  /\ isUseCookie \in BOOLEAN
  /\ hasFailureCallback \in BOOLEAN
  /\ hasMapper \in BOOLEAN
  /\ HandlerIdle
  /\ GateIdle
  /\ CtorIdle


\* ------------------------------------------------- handleTokenRefresh, synchronous part
\* variant: the rejection ignores errorMappers.urlRequestIsEmpty
MissingRequestErrorIgnoringMapper(mapper) == DefaultMissingError

\* `??` of the rejection at the top of handleTokenRefresh
MissingRequestError(mapper) ==
  IF mapper THEN UrlRequestIsEmptyError ELSE DefaultMissingError

\* variant: the test without its `!originalRequest._retry` conjunct
NeedsRefreshIgnoringRetry(exp, retried) == exp

\* variant: the test without its `isTokenExpiredError` conjunct
NeedsRefreshIgnoringPredicate(exp, retried) == ~retried

\* isTokenExpiredError && !originalRequest._retry
NeedsRefresh(exp, retried) == exp /\ ~retried

\* variant: the test without its url conjunct, as in the earlier handler
ShouldEnqueueAnyUrl(refreshing, u) == refreshing

\* variant: the url conjunct without its negation
ShouldEnqueueOnlyRenewalUrl(refreshing, u) == refreshing /\ Includes(u, TokenReissueUrl)

\* this.isRefreshingToken && !originalRequest.url?.includes(tokenReissueUrl)
ShouldEnqueue(refreshing, u) == refreshing /\ ~Includes(u, TokenReissueUrl)

\* the branch handleTokenRefresh takes before its first await
HandleDecision(hasCfg, exp, retried, refreshing, u) ==
  IF ~hasCfg THEN "noConfig"
  ELSE IF NeedsRefresh(exp, retried)
       THEN (IF ShouldEnqueue(refreshing, u) THEN "enqueue" ELSE "renew")
       ELSE "passThrough"

\* checkTokenExpiredError is called after the `!originalRequest` return
PredicateConsulted(hasCfg) == hasCfg

\* result?.accessToken ?? "", result?.refreshToken ?? ""
OrEmpty(c) == IF c.isNull THEN <<"", "">> ELSE <<c.accessToken, c.refreshToken>>

\* body of the renewal POST in STORAGE mode
RenewalBody(f) == OrEmpty(f)

\* arguments handleTokenRefresh hands to reissueTokenSuccessCallback:
\* f is what fetchAuthTokenMethod returned, issued the renewal response's data
SuccessCallbackArgs(f, issued) == OrEmpty(f)

\* the request on whose behalf task t runs: the caller's request at the
\* root of the chain of handlers awaiting it
RECURSIVE RootOf(_)
RootOf(t) == IF owner[t] = 0 \/ owner[t] = t THEN t ELSE RootOf(owner[t])

\* the handlers whose renewal procedure (credential fetch, renewal call,
\* success callback) has not completed yet
RenewalPending == {h \in Tasks : pc[h] \in {"fetching", "renewing", "successCb"}}

FreeRenewal == {c \in RenewalIds : pc[c] = "idle"}
NextRenewal == CHOOSE c \in FreeRenewal : \A d \in FreeRenewal : c <= d
RenewalCalls == Cardinality({c \in RenewalIds : pc[c] # "idle"})
Failures == Cardinality({t \in Tasks : failure[t] # None})

\* a promise settles; if a handler awaits it, its continuation becomes ready
SettleOne(t, st, v) ==
  /\ pc' = [pc EXCEPT ![t] = st]
  /\ result' = [result EXCEPT ![t] = v]
  /\ undelivered' = IF owner[t] # 0 THEN undelivered \cup {t} ELSE undelivered

\* the catch block: processQueue(refreshError) rejects every waiter of the
\* queue and clears it, then the failure callback is awaited if there is one,
\* else the finally block releases the flag and the handler rejects.
\* und is the set of undelivered tasks the calling step leaves.
Catch(h, E, und) ==
  LET W == {w \in Range(failedQueue) : pc[w] = "queued"}
      fin == ~hasFailureCallback
      S == W \cup (IF fin THEN {h} ELSE {})
  IN /\ failedQueue' = <<>>
     /\ caught' = [caught EXCEPT ![h] = E]
     /\ pc' = [t \in Tasks |->
                 IF t = h THEN (IF fin THEN "rejected" ELSE "failCb")
                 ELSE IF t \in W THEN "rejected" ELSE pc[t]]
     /\ result' = [t \in Tasks |-> IF t \in S THEN E ELSE result[t]]
     /\ undelivered' = und \cup {t \in S : owner[t] # 0}
     /\ isRefreshingToken' = (IF fin THEN FALSE ELSE isRefreshingToken)

\* this._axiosInstance(originalRequest): the handler replays its own request
IssueReplay(h, und) ==
  LET rt == ReplayOf(Cfg(h))
  IN /\ h \in CfgIds
     /\ pc[rt] = "idle"
     /\ pc' = [pc EXCEPT ![h] = "replaying", ![rt] = "sent"]
     /\ owner' = [owner EXCEPT ![rt] = h]
     /\ undelivered' = und

\* ---------------------------------------------------------------- actions
\* the caller's requests are interchangeable (same facade, same URLs): they
\* are numbered in the order in which Transport answers them
AnsweredInOrder(t) ==
  t \in UserIds => \A q \in UserIds : q < t => pc[q] \notin {"idle", "sent"}

\* the caller issues a request through the facade (get, post, ...)
Request(r, u) ==
  /\ r \in UserIds
  /\ pc[r] = "idle"
  /\ \A q \in UserIds : q < r => pc[q] # "idle"
  /\ ~MicrotaskPending
  /\ url' = [url EXCEPT ![r] = u]
  /\ pc' = [pc EXCEPT ![r] = "sent"]
  /\ UNCHANGED <<isUseCookie, hasFailureCallback, hasMapper, isRefreshingToken,
                 failedQueue, retry, result, owner, undelivered, drainSet, caught,
                 failure, consulted, enq, windowCalls, fetched, cbArgs>>
  /\ UNCHANGED <<gateVars, ctorVars, waitsOn>>

\* Transport answers task t with a response
TransportOk(t) ==
  /\ pc[t] = "sent"
  /\ AnsweredInOrder(t)
  /\ ~MicrotaskPending
  /\ SettleOne(t, "resolved", Resp(t))
  /\ UNCHANGED <<isUseCookie, hasFailureCallback, hasMapper, isRefreshingToken,
                 failedQueue, url, retry, owner, drainSet, caught, failure,
                 consulted, enq, windowCalls, fetched, cbArgs>>
  /\ UNCHANGED <<gateVars, ctorVars, waitsOn>>

\* task t fails: the response-error interceptor runs handleTokenRefresh(error)
\* up to its first await
TransportFail(t, exp, hasCfg) ==
  /\ pc[t] = "sent"
  /\ AnsweredInOrder(t)
  /\ ~MicrotaskPending
  /\ hasCfg \/ ~exp
  /\ Failures < MaxFailures
  /\ LET e == Err(t, exp, hasCfg)
         x == Cfg(t)
         d == HandleDecision(hasCfg, exp, retry[x], isRefreshingToken, UrlOf(x))
         base == IF isRefreshingToken THEN windowCalls ELSE 0
     IN /\ failure' = [failure EXCEPT ![t] = e]
        /\ consulted' = (IF PredicateConsulted(hasCfg) THEN consulted \cup {t} ELSE consulted)
        /\ waitsOn' = (IF d = "enqueue"
                       THEN [waitsOn EXCEPT ![t] = RenewalPending]
                       ELSE waitsOn)
        /\ CASE d = "noConfig" ->
                  /\ SettleOne(t, "rejected", MissingRequestError(hasMapper))
                  /\ UNCHANGED <<isRefreshingToken, failedQueue, retry, owner, enq, windowCalls>>
             [] d = "passThrough" ->
                  /\ SettleOne(t, "rejected", e)
                  /\ UNCHANGED <<isRefreshingToken, failedQueue, retry, owner, enq, windowCalls>>
             [] d = "enqueue" ->
                  /\ retry' = [retry EXCEPT ![x] = TRUE]
                  /\ failedQueue' = Append(failedQueue, t)
                  /\ enq' = enq \cup {t}
                  /\ pc' = [pc EXCEPT ![t] = "queued"]
                  /\ UNCHANGED <<isRefreshingToken, result, owner, undelivered, windowCalls>>
             [] d = "renew" ->
                  /\ retry' = [retry EXCEPT ![x] = TRUE]
                  /\ isRefreshingToken' = TRUE
                  /\ IF isUseCookie
                     THEN /\ FreeRenewal # {}
                          /\ pc' = [pc EXCEPT ![t] = "renewing", ![NextRenewal] = "sent"]
                          /\ owner' = [owner EXCEPT ![NextRenewal] = t]
                          /\ windowCalls' = base + 1
                     ELSE /\ pc' = [pc EXCEPT ![t] = "fetching"]
                          /\ windowCalls' = base
                          /\ UNCHANGED owner
                  /\ UNCHANGED <<failedQueue, result, undelivered, enq>>
  /\ UNCHANGED <<isUseCookie, hasFailureCallback, hasMapper, url, drainSet, caught,
                 fetched, cbArgs>>
  /\ UNCHANGED <<gateVars, ctorVars>>

\* STORAGE mode: fetchAuthTokenMethod answers; the renewal POST is sent
FetchAuthTokenDone(h, cr) ==
  /\ pc[h] = "fetching"
  /\ ~MicrotaskPending
  /\ FreeRenewal # {}
  /\ fetched' = [fetched EXCEPT ![h] = cr]
  /\ pc' = [pc EXCEPT ![h] = "renewing", ![NextRenewal] = "sent"]
  /\ owner' = [owner EXCEPT ![NextRenewal] = h]
  /\ windowCalls' = windowCalls + 1
  /\ UNCHANGED <<isUseCookie, hasFailureCallback, hasMapper, isRefreshingToken,
                 failedQueue, url, retry, result, undelivered, drainSet, caught,
                 failure, consulted, enq, cbArgs>>
  /\ UNCHANGED <<gateVars, ctorVars, waitsOn>>

\* STORAGE mode: fetchAuthTokenMethod rejects
FetchAuthTokenFail(h) ==
  /\ pc[h] = "fetching"
  /\ ~MicrotaskPending
  /\ Catch(h, FetchError(h), undelivered)
  /\ UNCHANGED <<isUseCookie, hasFailureCallback, hasMapper, url, retry, owner,
                 drainSet, failure, consulted, enq, windowCalls, fetched, cbArgs>>
  /\ UNCHANGED <<gateVars, ctorVars, waitsOn>>

\* the renewal call a handler awaits has settled
RenewalSettled(c) ==
  /\ c \in undelivered
  /\ c \in RenewalIds
  /\ pc[owner[c]] = "renewing"
  /\ LET h == owner[c]
     IN IF pc[c] = "resolved"
        THEN IF isUseCookie
             THEN /\ IssueReplay(h, undelivered \ {c})
                  /\ UNCHANGED <<isRefreshingToken, failedQueue, result, caught, cbArgs>>
             ELSE /\ cbArgs' = [cbArgs EXCEPT ![h] = SuccessCallbackArgs(fetched[h], IssuedCreds)]
                  /\ pc' = [pc EXCEPT ![h] = "successCb"]
                  /\ undelivered' = undelivered \ {c}
                  /\ UNCHANGED <<isRefreshingToken, failedQueue, result, caught, owner>>
        ELSE /\ Catch(h, result[c], undelivered \ {c})
             /\ UNCHANGED <<owner, cbArgs>>
  /\ fetched' = [fetched EXCEPT ![owner[c]] = NullCreds]
  /\ UNCHANGED <<isUseCookie, hasFailureCallback, hasMapper, url, retry, drainSet,
                 failure, consulted, enq, windowCalls>>
  /\ UNCHANGED <<gateVars, ctorVars, waitsOn>>

\* STORAGE mode: reissueTokenSuccessCallback returns; the request is replayed
SuccessCallbackDone(h) ==
  /\ pc[h] = "successCb"
  /\ ~MicrotaskPending
  /\ IssueReplay(h, undelivered)
  /\ cbArgs' = [cbArgs EXCEPT ![h] = NoArgs]
  /\ UNCHANGED <<isUseCookie, hasFailureCallback, hasMapper, isRefreshingToken,
                 failedQueue, url, retry, result, drainSet, caught, failure,
                 consulted, enq, windowCalls, fetched>>
  /\ UNCHANGED <<gateVars, ctorVars, waitsOn>>

\* STORAGE mode: reissueTokenSuccessCallback throws
SuccessCallbackThrows(h) ==
  /\ pc[h] = "successCb"
  /\ ~MicrotaskPending
  /\ Catch(h, SuccessCallbackError(h), undelivered)
  /\ cbArgs' = [cbArgs EXCEPT ![h] = NoArgs]
  /\ UNCHANGED <<isUseCookie, hasFailureCallback, hasMapper, url, retry, owner,
                 drainSet, failure, consulted, enq, windowCalls, fetched>>
  /\ UNCHANGED <<gateVars, ctorVars, waitsOn>>


\* processQueue(null): the waiters whose map callback replays them; a waiter
\* whose url === tokenReissueUrl is skipped (its callback returns at once)
DrainTargets == {w \in Range(failedQueue) : UrlOf(Cfg(w)) # TokenReissueUrl}

\* the finally block after a successful return: the flag is released and the
\* handler resolves with currentResponse
FinishOk(h, und) ==
  /\ failedQueue' = <<>>
  /\ isRefreshingToken' = FALSE
  /\ undelivered' = (IF owner[h] # 0 THEN und \cup {h} ELSE und)

\* the replay of the handler's own request has settled: on a response the
\* queue is drained (processQueue(null)), on a failure the catch block runs
TriggerReplaySettled(c) ==
  /\ c \in undelivered
  /\ c \in ReplayIds
  /\ Cfg(c) = Cfg(owner[c])
  /\ pc[owner[c]] = "replaying"
  /\ LET h == owner[c]
         T == DrainTargets
         R == {ReplayOf(Cfg(w)) : w \in T}
     IN IF pc[c] = "resolved"
        THEN IF T = {}
             THEN /\ FinishOk(h, undelivered \ {c})
                  /\ pc' = [pc EXCEPT ![h] = "resolved"]
                  /\ result' = [result EXCEPT ![h] = result[c]]
                  /\ UNCHANGED <<owner, drainSet, caught>>
             ELSE /\ \A w \in T : Cfg(w) \in CfgIds /\ pc[ReplayOf(Cfg(w))] = "idle"
                  /\ pc' = [t \in Tasks |->
                              IF t = h THEN "draining"
                              ELSE IF t \in R THEN "sent" ELSE pc[t]]
                  /\ owner' = [t \in Tasks |-> IF t \in R THEN h ELSE owner[t]]
                  /\ drainSet' = [drainSet EXCEPT ![h] = T]
                  /\ undelivered' = undelivered \ {c}
                  /\ UNCHANGED <<isRefreshingToken, failedQueue, result, caught>>
        ELSE /\ Catch(h, result[c], undelivered \ {c})
             /\ UNCHANGED <<owner, drainSet>>
  /\ UNCHANGED <<isUseCookie, hasFailureCallback, hasMapper, url, retry, failure,
                 consulted, enq, windowCalls, fetched, cbArgs>>
  /\ UNCHANGED <<gateVars, ctorVars, waitsOn>>

\* the replay of a queued waiter has settled: its map callback resolves the
\* waiter; when every callback is done the queue is cleared and the handler
\* returns.  A failed replay rejects Promise.all: processQueue throws into
\* the handler's catch block.
DrainReplaySettled(c) ==
  /\ c \in undelivered
  /\ c \in ReplayIds
  /\ owner[c] # 0
  /\ Cfg(c) # Cfg(owner[c])
  /\ LET h == owner[c]
         w == Cfg(c)
         und == undelivered \ {c}
         left == drainSet[h] \ {w}
         pend == pc[w] = "queued"
         last == pc[h] = "draining" /\ left = {}
     IN IF pc[c] = "resolved"
        THEN /\ pc' = [t \in Tasks |->
                         IF t = w /\ pend THEN "resolved"
                         ELSE IF t = h /\ last THEN "resolved" ELSE pc[t]]
             /\ result' = [t \in Tasks |->
                             IF t = w /\ pend THEN result[c]
                             ELSE IF t = h /\ last THEN result[ReplayOf(Cfg(h))]
                             ELSE result[t]]
             /\ drainSet' = [drainSet EXCEPT ![h] = IF pc[h] = "draining" THEN left ELSE @]
             /\ IF last
                THEN FinishOk(h, und)
                ELSE /\ undelivered' = und
                     /\ UNCHANGED <<failedQueue, isRefreshingToken>>
             /\ UNCHANGED caught
        ELSE IF pc[h] = "draining"
             THEN /\ Catch(h, result[c], und)
                  /\ drainSet' = [drainSet EXCEPT ![h] = {}]
             ELSE /\ undelivered' = und
                  /\ UNCHANGED <<pc, result, failedQueue, isRefreshingToken, caught, drainSet>>
  /\ UNCHANGED <<isUseCookie, hasFailureCallback, hasMapper, url, retry, owner,
                 failure, consulted, enq, windowCalls, fetched, cbArgs>>
  /\ UNCHANGED <<gateVars, ctorVars, waitsOn>>

\* variant: the handler rejects with E without the finally block
FinishFailedKeepingFlag(h, E) ==
  /\ UNCHANGED isRefreshingToken
  /\ SettleOne(h, "rejected", E)

\* the finally block after the catch block: the flag is released and the
\* handler rejects with E
FinishFailed(h, E) ==
  /\ isRefreshingToken' = FALSE
  /\ SettleOne(h, "rejected", E)

\* reissueTokenFailureCallback returns: the handler rejects with refreshError
FailureCallbackDone(h) ==
  /\ pc[h] = "failCb"
  /\ ~MicrotaskPending
  /\ FinishFailed(h, caught[h])
  /\ UNCHANGED <<isUseCookie, hasFailureCallback, hasMapper, failedQueue, url,
                 retry, owner, drainSet, caught, failure, consulted, enq,
                 windowCalls, fetched, cbArgs>>
  /\ UNCHANGED <<gateVars, ctorVars, waitsOn>>

\* reissueTokenFailureCallback throws inside the catch block
FailureCallbackThrows(h) ==
  /\ pc[h] = "failCb"
  /\ ~MicrotaskPending
  /\ FinishFailed(h, FailureCallbackError(h))
  /\ UNCHANGED <<isUseCookie, hasFailureCallback, hasMapper, failedQueue, url,
                 retry, owner, drainSet, caught, failure, consulted, enq,
                 windowCalls, fetched, cbArgs>>
  /\ UNCHANGED <<gateVars, ctorVars, waitsOn>>

Next ==
  \/ \E r \in UserIds, u \in UserUrls : Request(r, u)
  \/ \E t \in Tasks : TransportOk(t)
  \/ \E t \in Tasks, exp \in BOOLEAN, hasCfg \in BOOLEAN : TransportFail(t, exp, hasCfg)
  \/ \E h \in Tasks, cr \in FetchResults : FetchAuthTokenDone(h, cr)
  \/ \E h \in Tasks : FetchAuthTokenFail(h)
  \/ \E c \in Tasks : RenewalSettled(c)
  \/ \E h \in Tasks : SuccessCallbackDone(h)
  \/ \E h \in Tasks : SuccessCallbackThrows(h)
  \/ \E c \in Tasks : TriggerReplaySettled(c)
  \/ \E c \in Tasks : DrainReplaySettled(c)
  \/ \E h \in Tasks : FailureCallbackDone(h)
  \/ \E h \in Tasks : FailureCallbackThrows(h)

Spec == Init /\ [][Next]_vars


\* ------------------------------------------------ the request interceptor
\* one request descriptor followed through the request interceptor: its
\* first send, and its second send when handleTokenRefresh replays it
SecureMarker == <<"/", "secure", "/">>
PlainMarker == <<"secure">>
Markers == {<<>>, PlainMarker, SecureMarker}
SecurePayUrl == <<"/", "secure", "/", "pay">>
PublicPingUrl == <<"/", "public", "/", "ping">>
GateUrls == {<<>>, SecurePayUrl, PublicPingUrl, TokenReissueUrl}
Methods == {"get", "post", "put", "patch", "delete"}
SourceResults == {NullCreds, EmptyCreds, StoredCreds, IssuedCreds}

\* `!url` returns false; else url.includes(encryptUrlStr ?? "")
CheckUserIsIncludeEncryptUrl(enc, u) ==
  IF u = <<>> THEN FALSE ELSE Includes(u, enc.encryptUrlStr)

\* variant: the condition without its test of the method
ShouldTransformAnyMethod(enc, m, u) ==
  enc.present /\ CheckUserIsIncludeEncryptUrl(enc, u)

\* the condition under which the request interceptor calls the transform
ShouldTransform(enc, m, u) ==
  m \in {"post", "put"} /\ enc.present /\ CheckUserIsIncludeEncryptUrl(enc, u)

\* config.headers.Authorization after the token block of the interceptor
HeaderAfterFetch(cookie, hdr, token) ==
  IF cookie THEN hdr
  ELSE IF ~token.isNull /\ token.accessToken # ""
       THEN Bearer(token.accessToken)
       ELSE hdr

\* a rejection of the request interceptor skips Transport and reaches the
\* response-error interceptor: handleTokenRefresh(e) settles the call
RejectedWith(e, mapper) ==
  IF HandleDecision(e.cfg, e.exp, FALSE, FALSE, <<>>) = "noConfig"
  THEN MissingRequestError(mapper)
  ELSE e

GateSettle(st, hdr, sent, err) ==
  /\ gpc' = st
  /\ authHeader' = hdr
  /\ handed' = (IF sent = None THEN handed ELSE Append(handed, sent))
  /\ callerError' = err

\* the request interceptor runs for the descriptor; token is what
\* fetchAuthTokenMethod returns now, fetchRaises that it rejects instead
RequestInterceptor(token, fetchRaises) ==
  /\ gpc \in {"new", "replay"}
  /\ isUseCookie => (token = NullCreds /\ ~fetchRaises)
  /\ fetchCalls' = (IF isUseCookie THEN fetchCalls ELSE fetchCalls + 1)
  /\ lastFetch' = (IF fetchRaises THEN NullCreds ELSE token)
  /\ LET hdr == HeaderAfterFetch(isUseCookie, authHeader, token)
         tr == ShouldTransform(encryptionConfig, method, reqUrl)
         done == IF gpc = "new" THEN "dispatched" ELSE "replayed"
     IN IF fetchRaises
        THEN /\ GateSettle("fetchRejected", authHeader, None, RejectedWith(FetchError(0), hasMapper))
             /\ UNCHANGED transformCalls
        ELSE /\ transformCalls' = (IF tr THEN transformCalls + 1 ELSE transformCalls)
             /\ IF tr /\ transformRaises
                THEN GateSettle("transformRejected", hdr, None, RejectedWith(TransformError, hasMapper))
                ELSE GateSettle(done, hdr,
                                [k |-> "sent", transformed |-> tr, auth |-> hdr,
                                 data |-> DataAfterGate(tr, data)], None)
  /\ data' = (IF fetchRaises \/ transformRaises THEN data
              ELSE DataAfterGate(ShouldTransform(encryptionConfig, method, reqUrl), data))
  /\ UNCHANGED <<isUseCookie, hasFailureCallback, hasMapper, isRefreshingToken,
                 failedQueue, url, retry, pc, result, owner, undelivered, drainSet,
                 caught, failure, consulted, enq, windowCalls, fetched, cbArgs, waitsOn>>
  /\ UNCHANGED <<encryptionConfig, transformRaises, method, reqUrl, ctorVars,
                 responseTransformCalls, received>>

\* the request failed and handleTokenRefresh replays its descriptor:
\* this._axiosInstance(originalRequest) runs the request interceptor again
ReplayAfterRenewal ==
  /\ gpc = "dispatched"
  /\ gpc' = "replay"
  /\ UNCHANGED <<isUseCookie, hasFailureCallback, hasMapper, isRefreshingToken,
                 failedQueue, url, retry, pc, result, owner, undelivered, drainSet,
                 caught, failure, consulted, enq, windowCalls, fetched, cbArgs, waitsOn>>
  /\ UNCHANGED <<encryptionConfig, transformRaises, method, reqUrl, authHeader,
                 handed, transformCalls, fetchCalls, lastFetch, callerError, ctorVars,
                 responseTransformCalls, received, data>>

\* what the fulfilled handler of the response interceptor returns
OriginalResponse == [k |-> "response", id |-> 0, exp |-> FALSE, cfg |-> TRUE]
TransformedResponse == [k |-> "transformedResponse", id |-> 0, exp |-> FALSE, cfg |-> TRUE]
\* the error the injected responseInterceptor raises
ResponseTransformError == [k |-> "responseTransformError", id |-> 0, exp |-> FALSE, cfg |-> FALSE]

\* the condition under which the response interceptor calls the transform:
\* this.encryptionConfig && checkUserIsIncludeEncryptUrl(response.config.url);
\* response.config.method is not looked at
ShouldTransformResponse(enc, m, u) ==
  enc.present /\ CheckUserIsIncludeEncryptUrl(enc, u)

\* Transport answers the request with a response: the fulfilled handler of
\* the response interceptor runs; raises: the injected transform throws
ResponseInterceptor(raises) ==
  /\ gpc \in {"dispatched", "replayed"}
  /\ gpc' = "answered"
  /\ LET tr == ShouldTransformResponse(encryptionConfig, method, reqUrl)
     IN /\ raises => tr
        /\ responseTransformCalls' =
             (IF tr THEN responseTransformCalls + 1 ELSE responseTransformCalls)
        /\ received' = (IF ~tr THEN OriginalResponse
                        ELSE IF raises THEN ResponseTransformError
                        ELSE TransformedResponse)
  /\ UNCHANGED <<isUseCookie, hasFailureCallback, hasMapper, isRefreshingToken,
                 failedQueue, url, retry, pc, result, owner, undelivered, drainSet,
                 caught, failure, consulted, enq, windowCalls, fetched, cbArgs, waitsOn>>
  /\ UNCHANGED <<encryptionConfig, transformRaises, method, reqUrl, authHeader,
                 handed, transformCalls, fetchCalls, lastFetch, callerError, ctorVars,
                 data>>

GateInit ==
  /\ isUseCookie \in BOOLEAN
  /\ hasFailureCallback = FALSE
  /\ hasMapper \in BOOLEAN
  /\ HandlerIdle
  /\ CtorIdle
  /\ encryptionConfig \in {NoEncryption} \cup {Encryption(m) : m \in Markers}
  /\ transformRaises \in BOOLEAN
  /\ transformRaises => encryptionConfig.present
  /\ method \in Methods
  /\ reqUrl \in GateUrls
  /\ authHeader = NoHeader
  /\ gpc = "new"
  /\ handed = <<>>
  /\ transformCalls = 0
  /\ fetchCalls = 0
  /\ lastFetch = NullCreds
  /\ callerError = None
  /\ responseTransformCalls = 0
  /\ received = None
  /\ data = OriginalData

GateNext ==
  \/ \E token \in SourceResults, fetchRaises \in BOOLEAN : RequestInterceptor(token, fetchRaises)
  \/ ReplayAfterRenewal
  \/ \E raises \in BOOLEAN : ResponseInterceptor(raises)

GateSpec == GateInit /\ [][GateNext]_vars


\* ---------------------------------------------------------- the constructor
\* tokenConfig.tokenReissueUrl as given: absent or "", without https, valid
ReissueUrlArgs == {<<>>, <<"http", "auth", "refresh">>, TokenReissueUrl}
\* encryptUrlStr as given: undefined, or a string
UndefinedMarker == [defined |-> FALSE, str |-> <<>>]
MarkerArgs == {UndefinedMarker} \cup {[defined |-> TRUE, str |-> m] : m \in Markers}
NoEncryptionArg ==
  [present |-> FALSE, marker |-> UndefinedMarker,
   hasRequestInterceptor |-> FALSE, hasResponseInterceptor |-> FALSE]
EncryptionArgs ==
  {NoEncryptionArg} \cup
  [present : {TRUE}, marker : MarkerArgs,
   hasRequestInterceptor : BOOLEAN, hasResponseInterceptor : BOOLEAN]
TransportTypes == {"WEB_COOKIE", "STORAGE"}
CtorArgSets ==
  [given : {TRUE}, hasPredicate : BOOLEAN, reissueUrl : ReissueUrlArgs,
   enc : EncryptionArgs, transport : TransportTypes,
   hasFetch : BOOLEAN, hasSuccessCallback : BOOLEAN]

\* JavaScript `!str` of a string
Falsy(str) == str = <<>>

\* each check returns "ok" or the error it throws
CheckTokenRefreshConfigParams(a) ==
  IF ~a.hasPredicate THEN "checkTokenExpiredErrorRequired"
  ELSE IF Falsy(a.reissueUrl) \/ a.reissueUrl = <<>> \/ ~Includes(a.reissueUrl, <<"https">>)
       THEN "tokenReissueUrlInvalid"
       ELSE "ok"

\* !encryptUrlStr && encryptUrlStr.includes("/")
MarkerRejected(mk) == Falsy(mk.str) /\ Includes(mk.str, <<"/">>)

CheckEncryptionConfigParams(enc) ==
  IF ~enc.marker.defined THEN "TypeError"
  ELSE IF MarkerRejected(enc.marker) THEN "encryptUrlStrInvalid"
  ELSE IF ~enc.hasRequestInterceptor THEN "requestInterceptorRequired"
  ELSE IF ~enc.hasResponseInterceptor THEN "responseInterceptorRequired"
  ELSE "ok"

\* variant: WEB_COOKIE mode accepts a fetchAuthTokenMethod
CheckTokenTransportConfigParamsLenient(a) ==
  IF a.transport = "STORAGE" /\ ~a.hasFetch THEN "fetchAuthTokenMethodRequired" ELSE "ok"

CheckTokenTransportConfigParams(a) ==
  IF a.transport = "WEB_COOKIE" /\ a.hasFetch THEN "fetchAuthTokenMethodNotRequired"
  ELSE IF a.transport = "STORAGE" /\ ~a.hasFetch THEN "fetchAuthTokenMethodRequired"
  ELSE "ok"

\* the constructor's checks in their order; "constructed" when none throws
ConstructorOutcome(a) ==
  LET t == CheckTokenRefreshConfigParams(a)
      n == IF a.enc.present THEN CheckEncryptionConfigParams(a.enc) ELSE "ok"
      p == CheckTokenTransportConfigParams(a)
  IN IF t # "ok" THEN t
     ELSE IF n # "ok" THEN n
     ELSE IF p # "ok" THEN p
     ELSE IF a.transport # "WEB_COOKIE" /\ ~a.hasSuccessCallback
          THEN "reissueTokenSuccessCallbackRequired"
          ELSE "constructed"

\* new RemoteRequest(...) runs
Construct ==
  /\ ctorResult = "pending"
  /\ ctorResult' = ConstructorOutcome(ctorArgs)
  /\ IF ConstructorOutcome(ctorArgs) = "constructed"
     THEN /\ isUseCookie' = (ctorArgs.transport = "WEB_COOKIE")
          /\ encryptionConfig' = (IF ctorArgs.enc.present
                                  THEN Encryption(ctorArgs.enc.marker.str)
                                  ELSE NoEncryption)
     ELSE UNCHANGED <<isUseCookie, encryptionConfig>>
  /\ UNCHANGED <<hasFailureCallback, hasMapper, isRefreshingToken,
                 failedQueue, url, retry, pc, result, owner, undelivered, drainSet,
                 caught, failure, consulted, enq, windowCalls, fetched, cbArgs, waitsOn>>
  /\ UNCHANGED <<transformRaises, method, reqUrl, authHeader, gpc, handed,
                 transformCalls, fetchCalls, lastFetch, callerError, ctorArgs,
                 responseTransformCalls, received, data>>

\* the caller makes a request on the instance the constructor returned
FirstRequest(m, u) ==
  /\ ctorResult = "constructed"
  /\ gpc = "idle"
  /\ gpc' = "new"
  /\ method' = m
  /\ reqUrl' = u
  /\ UNCHANGED <<isUseCookie, hasFailureCallback, hasMapper, isRefreshingToken,
                 failedQueue, url, retry, pc, result, owner, undelivered, drainSet,
                 caught, failure, consulted, enq, windowCalls, fetched, cbArgs, waitsOn>>
  /\ UNCHANGED <<encryptionConfig, transformRaises, authHeader, handed,
                 transformCalls, fetchCalls, lastFetch, callerError, ctorVars,
                 responseTransformCalls, received, data>>

CtorInit ==
  /\ isUseCookie = FALSE
  /\ hasFailureCallback = FALSE
  /\ hasMapper = FALSE
  /\ HandlerIdle
  /\ GateIdle
  /\ ctorArgs \in CtorArgSets
  /\ ctorResult = "pending"

CtorNext ==
  \/ Construct
  \/ \E m \in {"get", "post"}, u \in {SecurePayUrl} : FirstRequest(m, u)

CtorSpec == CtorInit /\ [][CtorNext]_vars


\* ================================================================ claims
\* every call and callback has completed and the caller has issued all its requests
Quiescent ==
  /\ undelivered = {}
  /\ \A t \in Tasks : pc[t] \in {"idle", "resolved", "rejected", "queued"}
  /\ \A r \in UserIds : pc[r] # "idle"
\* the handler's renewal procedure (credential fetch, renewal call, success
\* callback) failed: its catch block ran before its request was replayed
RenewalFailed(h) == h \in CfgIds /\ caught[h] # None /\ pc[ReplayOf(h)] = "idle"

\* C1: within one renewal window (from isRefreshingToken going true until it
\* is cleared) at most one call is made to the renewal endpoint.
SingleFlight == windowCalls <= 1

\* C2: when the renewal succeeded, a trigger whose replay returned a response
\* resolves with that response, and every drained waiter is settled with the
\* outcome of its own replay (its response, or its failure).
QueueDrainOnSuccess ==
  /\ \A h \in CfgIds :
       (owner[ReplayOf(h)] = h /\ pc[ReplayOf(h)] = "resolved" /\ Settled(h))
         => (pc[h] = "resolved" /\ result[h] = result[ReplayOf(h)])
  /\ \A w \in enq \cap CfgIds :
       (Settled(w) /\ pc[ReplayOf(w)] # "idle")
         => (pc[ReplayOf(w)] = pc[w] /\ result[ReplayOf(w)] = result[w])

\* C3: when the renewal procedure fails with error E, every waiter queued at
\* that time is rejected with E, and the trigger is rejected with E.
QueueDrainOnFailure ==
  /\ [][\A h \in CfgIds :
          (caught[h] = None /\ caught'[h] # None /\ pc[ReplayOf(h)] = "idle")
            => \A w \in Range(failedQueue) :
                 pc'[w] = "rejected" /\ result'[w] = caught'[h]]_vars
  /\ [](\A h \in CfgIds :
          (RenewalFailed(h) /\ Settled(h))
            => (pc[h] = "rejected" /\ result[h] = caught[h]))

\* C4: once every call and callback has completed, every request that was
\* enqueued has had its success or failure continuation invoked.
EveryWaiterSettled == Quiescent => \A w \in enq : Settled(w)

\* C5: failedQueue is non-empty only while isRefreshingToken is true.
QueueEmptyOutsideRenewal == ~isRefreshingToken => failedQueue = <<>>

\* C6: the handler of a failed renewal call issues no further renewal call:
\* no renewal call is made on behalf of a renewal call.
NoRenewalRetry == \A c \in RenewalIds : pc[c] # "idle" => owner[c] \notin RenewalIds

\* C7: a failure classified auth-expired of a request already marked _retry
\* is rejected with that failure; the step makes no renewal call, leaves
\* isRefreshingToken and failedQueue as they are and starts no handler.
NoDoubleRetry ==
  [][\A t \in Tasks :
       (failure[t] = None /\ failure'[t] # None /\ failure'[t].cfg
          /\ failure'[t].exp /\ retry[Cfg(t)])
         => /\ pc'[t] = "rejected"
            /\ result'[t] = failure'[t]
            /\ isRefreshingToken' = isRefreshingToken
            /\ failedQueue' = failedQueue
            /\ RenewalCalls' = RenewalCalls]_vars
NoDoubleRetryWitness ==
  \E t \in ReplayIds :
    /\ failure[t] # None /\ failure[t].cfg /\ failure[t].exp
    /\ pc[t] = "rejected" /\ result[t] = failure[t]
    /\ retry[Cfg(t)]

\* C8: a task whose URL is the renewal endpoint is never pushed to
\* failedQueue, whatever isRefreshingToken is when its failure is handled.
RenewalExemption == \A t \in enq : UrlOf(Cfg(t)) # TokenReissueUrl
\* a renewal call failed auth-expired while another handler held the flag,
\* and started its own handler instead of waiting in the queue
RenewalExemptionWitness ==
  \E c \in RenewalIds :
    /\ failure[c] # None /\ failure[c].exp
    /\ pc[c] = "renewing" /\ pc[owner[c]] = "renewing"
    /\ isRefreshingToken /\ windowCalls = 2
    /\ c \notin enq

\* C9: in STORAGE mode reissueTokenSuccessCallback is called with the tokens
\* of the renewal response.
SuccessCallbackGetsIssuedTokens ==
  \A h \in Tasks :
    pc[h] = "successCb" => cbArgs[h] = <<IssuedCreds.accessToken, IssuedCreds.refreshToken>>

\* C10: a failure without request descriptor is rejected at once with
\* errorMappers.urlRequestIsEmpty when configured, else with the default
\* error; the predicate is not consulted, no renewal starts, and
\* isRefreshingToken and failedQueue are unchanged.
MissingRequestRejected ==
  [][\A t \in Tasks :
       (failure[t] = None /\ failure'[t] # None /\ ~failure'[t].cfg)
         => /\ pc'[t] = "rejected"
            /\ result'[t] = (IF hasMapper THEN UrlRequestIsEmptyError ELSE DefaultMissingError)
            /\ consulted' = consulted
            /\ isRefreshingToken' = isRefreshingToken
            /\ failedQueue' = failedQueue
            /\ retry' = retry
            /\ RenewalCalls' = RenewalCalls]_vars
MissingRequestRejectedWitness ==
  \E t \in Tasks :
    /\ failure[t] # None /\ ~failure[t].cfg
    /\ hasMapper /\ result[t] = UrlRequestIsEmptyError
    /\ isRefreshingToken

\* C11: when the request-transform raises for an outgoing request, nothing
\* is handed to Transport and the caller's call is rejected with the
\* transform's error.
TransformErrorReachesCaller ==
  [][(transformCalls' = transformCalls + 1 /\ transformRaises)
       => (handed' = handed /\ callerError' = TransformError)]_vars

\* C12: the request-transform is invoked for an outgoing request if and only
\* if an encryption config is present, the method is POST or PUT and the URL is
\* non-empty and contains the marker.
TransformIffMarked ==
  [][(gpc \in {"new", "replay"} /\ gpc' # gpc)
       => /\ transformCalls' \in {transformCalls, transformCalls + 1}
          /\ (transformCalls' = transformCalls + 1)
               => (/\ encryptionConfig.present
                   /\ method \in {"post", "put"}
                   /\ reqUrl # <<>>
                   /\ Includes(reqUrl, encryptionConfig.encryptUrlStr))
          /\ (/\ gpc' # "fetchRejected"
              /\ encryptionConfig.present
              /\ method \in {"post", "put"}
              /\ reqUrl # <<>>
              /\ Includes(reqUrl, encryptionConfig.encryptUrlStr))
               => transformCalls' = transformCalls + 1]_vars
\* POST /secure/pay was transformed and sent, under the marker /secure/
TransformIffMarkedWitness ==
  /\ encryptionConfig = Encryption(SecureMarker)
  /\ method = "post" /\ reqUrl = SecurePayUrl
  /\ gpc = "dispatched" /\ transformCalls = 1
  /\ handed = <<[k |-> "sent", transformed |-> TRUE, auth |-> authHeader,
                  data |-> RequestTransform(OriginalData)]>>

\* C15: in STORAGE mode every request handed to Transport carries as bearer
\* header the access token the credential source returned for that send, and
\* no authorization header when it returned none or an empty one; in
\* WEB_COOKIE mode the source is never called and no header is attached.
BearerHeaderIsCurrent ==
  [][(Len(handed') = Len(handed) + 1)
       => LET sent == handed'[Len(handed')]
          IN IF isUseCookie
             THEN sent.auth = NoHeader /\ fetchCalls' = 0
             ELSE IF lastFetch'.isNull \/ lastFetch'.accessToken = ""
                  THEN sent.auth = NoHeader
                  ELSE sent.auth = Bearer(lastFetch'.accessToken)]_vars

\* C13: construction fails, and no request can be made, whenever an
\* encryption config is supplied whose marker is empty or contains "/", or
\* which lacks the request-transform or the response-transform.
InvalidEncryptionConfigRejected ==
  (/\ ctorResult # "pending"
   /\ ctorArgs.enc.present
   /\ \/ ~ctorArgs.enc.marker.defined
      \/ ctorArgs.enc.marker.str = <<>>
      \/ Includes(ctorArgs.enc.marker.str, <<"/">>)
      \/ ~ctorArgs.enc.hasRequestInterceptor
      \/ ~ctorArgs.enc.hasResponseInterceptor)
    => (ctorResult # "constructed" /\ gpc = "idle")

\* C14: construction fails for STORAGE without fetchAuthTokenMethod, STORAGE
\* without reissueTokenSuccessCallback and WEB_COOKIE with a
\* fetchAuthTokenMethod; it succeeds for WEB_COOKIE without one and for
\* STORAGE with both, given a token config and an encryption config (if any)
\* that pass their own checks.
TransportConfigConflictsRejected ==
  LET a == ctorArgs
      bad == \/ a.transport = "STORAGE" /\ ~a.hasFetch
             \/ a.transport = "STORAGE" /\ ~a.hasSuccessCallback
             \/ a.transport = "WEB_COOKIE" /\ a.hasFetch
      good == \/ a.transport = "WEB_COOKIE" /\ ~a.hasFetch
              \/ a.transport = "STORAGE" /\ a.hasFetch /\ a.hasSuccessCallback
      restValid == /\ a.hasPredicate
                   /\ a.reissueUrl = TokenReissueUrl
                   /\ a.enc.present => (/\ a.enc.marker.defined
                                        /\ a.enc.hasRequestInterceptor
                                        /\ a.enc.hasResponseInterceptor)
  IN ctorResult # "pending"
       => /\ bad => ctorResult \notin {"constructed", "pending"}
          /\ (good /\ restValid) => ctorResult = "constructed"
          /\ (restValid /\ ctorResult # "constructed") => bad
\* both outcomes of a STORAGE configuration: accepted with both callbacks
TransportConfigConflictsRejectedWitness ==
  /\ ctorResult = "constructed"
  /\ ctorArgs.transport = "STORAGE" /\ ctorArgs.hasFetch /\ ctorArgs.hasSuccessCallback
  /\ ~isUseCookie
  /\ gpc = "new"

\* C16: whenever failedQueue is cleared, every waiter that was in it has
\* had its success or failure continuation invoked.
NoWaiterDropped ==
  [][(failedQueue # <<>> /\ failedQueue' = <<>>)
       => \A w \in Range(failedQueue) : pc'[w] \in {"resolved", "rejected"}]_vars

\* C17: reissueTokenFailureCallback is invoked only by a handler whose
\* renewal procedure failed (it never started the replay of its request),
\* once, after the queued waiters were rejected and before the handler
\* settles.
FailureCallbackOnlyAfterFailedRenewal ==
  [][\A h \in Tasks :
       (pc[h] # "failCb" /\ pc'[h] = "failCb")
         => /\ h \in CfgIds
            /\ caught[h] = None
            /\ pc'[ReplayOf(h)] = "idle"
            /\ \A w \in Range(failedQueue) : pc'[w] = "rejected"]_vars

\* C18: no queued waiter is replayed or rejected while a renewal it waits on
\* is still pending (its handler is in its renewal procedure and the call it
\* awaits has not settled); a waiter's replay starts after the response of
\* the draining handler's own replay and before the queue is cleared.
WaitersDrainedAfterRenewal ==
  [][\A w \in enq \cap CfgIds :
       LET replayStarts == pc[ReplayOf(w)] = "idle" /\ pc'[ReplayOf(w)] # "idle"
           rejectedNow == pc[w] = "queued" /\ pc'[w] = "rejected"
       IN /\ (replayStarts \/ rejectedNow)
               => \A h \in waitsOn[w] :
                    \/ pc'[h] \notin {"fetching", "renewing", "successCb"}
                    \/ \E c \in undelivered' : owner'[c] = h
          /\ replayStarts
               => /\ owner'[ReplayOf(w)] \in CfgIds
                  /\ pc[ReplayOf(owner'[ReplayOf(w)])] = "resolved"
                  /\ w \in Range(failedQueue')]_vars

\* C19: once every call and callback has completed, every invocation of
\* handleTokenRefresh has resolved or rejected, and no request causes more
\* than one call to the renewal endpoint.
HandlersTerminate ==
  /\ Quiescent => \A t \in Tasks : failure[t] # None => Settled(t)
  /\ \A r \in UserIds :
       Cardinality({c \in RenewalIds : pc[c] # "idle" /\ RootOf(c) = r}) <= 1

\* C20: when a handler that set isRefreshingToken finishes, on any exit
\* path, isRefreshingToken is false afterwards.
FlagReleasedOnExit ==
  [][\A h \in Tasks :
       (/\ pc[h] \in {"fetching", "renewing", "successCb", "replaying", "draining", "failCb"}
        /\ pc'[h] \in {"resolved", "rejected"})
         => ~isRefreshingToken']_vars
\* one handler returned its replayed response, another was rejected by the
\* error its failure callback threw; the flag is released
FlagReleasedOnExitWitness ==
  /\ ~isRefreshingToken
  /\ \E h \in CfgIds : pc[h] = "resolved" /\ pc[ReplayOf(h)] = "resolved" /\ owner[ReplayOf(h)] = h
  /\ \E h \in CfgIds : pc[h] = "rejected" /\ result[h] = FailureCallbackError(h)

\* C21: a failure the predicate classifies as not auth-expired is rejected
\* with that same failure; handling it leaves isRefreshingToken, failedQueue
\* and the descriptor's _retry as they are and sends nothing to Transport.
NonAuthFailurePassedThrough ==
  [][\A t \in Tasks :
       (failure[t] = None /\ failure'[t] # None /\ failure'[t].cfg /\ ~failure'[t].exp)
         => /\ pc'[t] = "rejected"
            /\ result'[t] = failure'[t]
            /\ isRefreshingToken' = isRefreshingToken
            /\ failedQueue' = failedQueue
            /\ retry' = retry
            /\ \A s \in Tasks : pc[s] = "idle" => pc'[s] = "idle"]_vars
\* a first failure (descriptor not marked _retry) that is not auth-expired
\* was handed back while another handler's renewal was in progress
NonAuthFailurePassedThroughWitness ==
  \E t \in UserIds :
    /\ failure[t] # None /\ failure[t].cfg /\ ~failure[t].exp
    /\ pc[t] = "rejected" /\ result[t] = failure[t]
    /\ ~retry[t]
    /\ isRefreshingToken /\ failedQueue # <<>>

\* processQueue(error) with an error: the step in which handler h enters its
\* catch block calls reject of every waiter in failedQueue
RejectInvoked(w) ==
  \E h \in Tasks : caught[h] = None /\ caught'[h] # None /\ w \in Range(failedQueue)
\* processQueue(null): the map callback of waiter w resumes with the response
\* of its replay and calls resolve
ResolveInvoked(w) ==
  LET c == ReplayOf(w)
  IN /\ w \in CfgIds
     /\ c \in undelivered /\ c \notin undelivered'
     /\ Cfg(owner[c]) # w
     /\ pc[c] = "resolved"

\* C22: each waiter is settled exactly once: no continuation of a waiter is
\* invoked after one of its continuations was invoked, and once every call
\* and callback has completed one of them has been invoked.
WaiterSettledExactlyOnce ==
  /\ [][\A w \in enq :
          (RejectInvoked(w) \/ ResolveInvoked(w)) => pc[w] = "queued"]_vars
  /\ [](Quiescent => \A w \in enq : pc[w] # "queued")

\* C23: the response-transform runs only for the response to a GET request
\* whose URL contains the marker, with an encryption config present; every
\* other response (POST/PUT on a marked URL included) is returned as it came.
ResponseTransformOnlyForGet ==
  [][(gpc # "answered" /\ gpc' = "answered")
       => IF /\ encryptionConfig.present
             /\ method = "get"
             /\ reqUrl # <<>>
             /\ Includes(reqUrl, encryptionConfig.encryptUrlStr)
          THEN responseTransformCalls' = responseTransformCalls + 1
          ELSE /\ responseTransformCalls' = responseTransformCalls
               /\ received' = OriginalResponse]_vars

\* C24: isRefreshingToken is true for the whole of every renewal cycle:
\* while a handler has its renewal call, the replay of its own request or its
\* drain pending, the flag is true (no other handler's release clears it).
FlagHeldThroughCycle ==
  ~MicrotaskPending
    => \A h \in Tasks :
         pc[h] \in {"fetching", "renewing", "successCb", "replaying", "draining"}
           => isRefreshingToken

\* C25: a request whose auth-expired failure is handled after the renewal
\* call succeeded, while the replay of the trigger's request is pending, is
\* pushed to failedQueue without a second renewal call, and its replay is
\* started by the trigger's handler when it drains the queue.  Stated for
\* executions with a single renewal call, hence a single cycle.
LateWaiterReplayedBySameCycle ==
  [][/\ \A t \in UserIds :
          (/\ failure[t] = None /\ failure'[t] # None
           /\ failure'[t].cfg /\ failure'[t].exp /\ ~retry[t]
           /\ RenewalCalls = 1 /\ RenewalPending = {}
           /\ \E h \in Tasks : pc[h] = "replaying")
            => /\ pc'[t] = "queued"
               /\ t \in Range(failedQueue')
               /\ RenewalCalls' = 1
     /\ \A h \in Tasks :
          (pc[h] = "replaying" /\ pc'[h] # "replaying" /\ RenewalCalls = 1)
            => \A w \in Range(failedQueue) :
                 waitsOn[w] = {}
                   => /\ pc'[ReplayOf(w)] = "sent"
                      /\ owner'[ReplayOf(w)] = h]_vars

\* C26: failedQueue never holds a waiter whose URL is the renewal endpoint:
\* the drain's branch that skips such a waiter is never taken, every entry
\* of the queue is a drain target.
RenewalUrlNeverQueued ==
  /\ \A i \in 1..Len(failedQueue) : UrlOf(Cfg(failedQueue[i])) # TokenReissueUrl
  /\ DrainTargets = Range(failedQueue)
\* a renewal call failed auth-expired and was kept out of the queue, and a
\* handler is draining a queue all of whose entries it replays
RenewalUrlNeverQueuedWitness ==
  /\ \E c \in RenewalIds : failure[c] # None /\ failure[c].exp /\ c \notin Range(failedQueue)
  /\ \E h \in Tasks :
       pc[h] = "draining" /\ failedQueue # <<>> /\ drainSet[h] = Range(failedQueue)

\* C27: every POST/PUT request to a marked URL is handed to Transport with
\* the request-transform applied exactly once to the caller's body, on its
\* first send and when it is replayed after a renewal.
RequestTransformAppliedOnce ==
  [][(Len(handed') = Len(handed) + 1)
       => LET sent == handed'[Len(handed')]
          IN (/\ encryptionConfig.present
              /\ method \in {"post", "put"}
              /\ reqUrl # <<>>
              /\ Includes(reqUrl, encryptionConfig.encryptUrlStr))
               => sent.data = RequestTransform(OriginalData)]_vars

====
